---- MODULE Spec2Model ----
(***************************************************************************)
(* A model of the two statistical engines of grammar_checker:              *)
(*   markov.py  class MarkovChain  (order-k chain over POS tags)           *)
(*   ngrams.py  class NGrams       (left/center/right co-occurrence)       *)
(*                                                                         *)
(* One instance of one of the two classes is modelled; Init chooses the    *)
(* class and the constructor's order.  The variables are the instance's    *)
(* attributes, the actions are its public methods, each translated whole   *)
(* (fit of MarkovChain includes the two normalisations it ends with).      *)
(*                                                                         *)
(* Python strings are sequences of one-character strings, so that          *)
(* '**'.join / str.split('**') and ' '.join / str.split(' ') are computed  *)
(* character by character.  Python numbers are exact rationals <<n, d>>    *)
(* in lowest terms (an int count c is <<c, 1>>); float rounding is not     *)
(* modelled.  A dict is a function whose DOMAIN is its key set.            *)
(***************************************************************************)
EXTENDS Integers, Sequences, FiniteSets, TLC

VARIABLES
    cls,                    \* "MarkovChain" or "NGrams": the class of the instance
    order,                  \* self.order
    transition,             \* self.transition
    init_vector,            \* self.init_vector
    normalized_init,        \* self.normalized_init
    normalized_transition,  \* self.normalized_transition
    has_pr,                 \* whether attribute self.pr exists yet
    pr,                     \* self.pr (<<>> while it does not exist)
    words,                  \* self.words
    has_p,                  \* whether self.p_z, self.p_x_y, self.p_z_given_x_y exist yet
    p_z,                    \* self.p_z
    p_x_y,                  \* self.p_x_y
    p_z_given_x_y,          \* self.p_z_given_x_y
    op,                     \* name of the last method called ("init" after construction)
    arg,                    \* argument of the last call (<<>> for the normalize methods)
    ret,                    \* value the last call returned (<<>> for None or after a raise)
    raised,                 \* "none", or the exception the last call raised
    nfit,                   \* number of fit calls made so far
    repeated                \* the last call was a normalize method, and the call before
                            \* it had normalized the same table

vars == <<cls, order, transition, init_vector, normalized_init, normalized_transition,
          has_pr, pr, words, has_p, p_z, p_x_y, p_z_given_x_y,
          op, arg, ret, raised, nfit, repeated>>

-----------------------------------------------------------------------------
(* Bounds of the model *)

\* longest sentence, in tokens, given to fit or to predict_proba
MaxLen == 4
\* most sentences in the corpus given to one fit call, under Spec
MaxSents == 1
\* most sentences in the corpus given to one fit call, under SpecFit
MaxFitSents == 2
\* most fit calls on the instance
MaxFits == 1
\* the longest sentence and the most sentences given to verb_filter
MaxVerbLen == 3
MaxVerbSents == 2

-----------------------------------------------------------------------------
(* Input alphabets *)

\* the '**' that joins tags into keys, and the ' ' that joins words into windows
DELIM == <<"*", "*">>
SPACE == <<" ">>

\* the constructor's order argument
Orders == {1, 2}

\* (word, tag) tokens given to fit and to predict_proba: "*" is a tag of the Brown
\* tag set (it collides with the '**' of the keys), "b c" a token that holds the
\* ' ' of the windows
Tokens == { << <<"a">>, <<"A">> >>,
            << <<"b", " ", "c">>, <<"*">> >> }

SeqsUpTo(S, n) == UNION { [1..k -> S] : k \in 0..n }

\* the tokens of SpecFit's longer corpora: two tags without '*'
FitTokens == { << <<"a">>, <<"A">> >>,
               << <<"d">>, <<"B">> >> }

Sentences == SeqsUpTo(Tokens, MaxLen)
Corpora == SeqsUpTo(Sentences, MaxSents)
FitCorpora == SeqsUpTo(SeqsUpTo(FitTokens, MaxLen), MaxFitSents) \cup Corpora

-----------------------------------------------------------------------------
(* Exact arithmetic *)

RECURSIVE Gcd(_, _)
Gcd(a, b) == IF b = 0 THEN a ELSE Gcd(b, a % b)

Rat(n, d) == LET g == Gcd(n, d) IN <<n \div g, d \div g>>
Zero == <<0, 1>>
One == <<1, 1>>
RAdd(a, b) == Rat(a[1] * b[2] + b[1] * a[2], a[2] * b[2])
RMul(a, b) == Rat(a[1] * b[1], a[2] * b[2])
RDiv(a, b) == Rat(a[1] * b[2], a[2] * b[1])
RLess(a, b) == a[1] * b[2] < b[1] * a[2]

RECURSIVE SumOver(_, _)
SumOver(d, ks) ==
    IF ks = {} THEN Zero
    ELSE LET k == CHOOSE x \in ks : TRUE
         IN RAdd(d[k], SumOver(d, ks \ {k}))

\* sum(d.values())
DictSum(d) == SumOver(d, DOMAIN d)

\* d[k] = v
DictSet(d, k, v) == [x \in (DOMAIN d) \cup {k} |-> IF x = k THEN v ELSE d[x]]

-----------------------------------------------------------------------------
(* str.join and str.split *)

RECURSIVE Join(_, _)
Join(l, delim) ==
    IF l = <<>> THEN <<>>
    ELSE IF Len(l) = 1 THEN l[1]
    ELSE l[1] \o delim \o Join(Tail(l), delim)

IsPrefix(d, s) == Len(s) >= Len(d) /\ SubSeq(s, 1, Len(d)) = d

RECURSIVE SplitFrom(_, _, _)
SplitFrom(s, delim, cur) ==
    IF s = <<>> THEN <<cur>>
    ELSE IF IsPrefix(delim, s)
         THEN <<cur>> \o SplitFrom(SubSeq(s, Len(delim) + 1, Len(s)), delim, <<>>)
         ELSE SplitFrom(Tail(s), delim, Append(cur, Head(s)))

Split(s, delim) == SplitFrom(s, delim, <<>>)

-----------------------------------------------------------------------------
(* Helpers shared by the two classes (the methods are copied in both files) *)

TagsOf(s) == [i \in 1..Len(s) |-> s[i][2]]
WordsOf(s) == [i \in 1..Len(s) |-> s[i][1]]

\* init_p: pops the first `order` tokens; p joins their tags, w their words
init_p(s, k) ==
    [s |-> SubSeq(s, k + 1, Len(s)),
     p |-> Join(SubSeq(TagsOf(s), 1, k), DELIM),
     w |-> Join(SubSeq(WordsOf(s), 1, k), SPACE)]

\* update_prvs: prvs.split(delim)[1:] + [new], joined by delim again
update_prvs(prvs, new, delim) ==
    Join(Append(Tail(Split(prvs, delim)), new), delim)

\* np.array(l).argmin(): the first index (from 1 here) of the least element
ArgMin(l) ==
    CHOOSE i \in 1..Len(l) :
        /\ \A j \in 1..Len(l) : ~RLess(l[j], l[i])
        /\ \A j \in 1..(i - 1) : RLess(l[i], l[j])

-----------------------------------------------------------------------------
(* class MarkovChain *)

\* update_init_vector's count: init_vector[p] += 1, or = 1 on KeyError
MC_update_init_vector(iv, p) ==
    IF p \in DOMAIN iv THEN DictSet(iv, p, RAdd(iv[p], One))
    ELSE DictSet(iv, p, One)

\* update_transition: count prvs -> p, then slide prvs
MC_update_transition(tr, p, prvs, k) ==
    [tr |-> IF prvs \in DOMAIN tr
            THEN IF p \in DOMAIN tr[prvs]
                 THEN DictSet(tr, prvs, DictSet(tr[prvs], p, RAdd(tr[prvs][p], One)))
                 ELSE DictSet(tr, prvs, DictSet(tr[prvs], p, One))
            ELSE DictSet(tr, prvs, DictSet(<<>>, p, One)),
     prvs |-> IF k > 1 THEN update_prvs(prvs, p, DELIM) ELSE p]

\* the inner loop of fit: for w, p in s: prvs = update_transition(p, prvs)
RECURSIVE MC_fit_tokens(_, _, _, _)
MC_fit_tokens(tr, s, prvs, k) ==
    IF s = <<>> THEN tr
    ELSE LET u == MC_update_transition(tr, s[1][2], prvs, k)
         IN MC_fit_tokens(u.tr, Tail(s), u.prvs, k)

\* the outer loop of fit over the corpus; t is [iv |-> init_vector, tr |-> transition]
RECURSIVE MC_fit_loop(_, _, _)
MC_fit_loop(t, pos, k) ==
    IF pos = <<>> THEN t
    ELSE LET s == pos[1]
         IN IF Len(s) > k + 1
            THEN LET i == init_p(s, k)
                 IN MC_fit_loop([iv |-> MC_update_init_vector(t.iv, i.p),
                                 tr |-> MC_fit_tokens(t.tr, i.s, i.p, k)],
                                Tail(pos), k)
            ELSE MC_fit_loop(t, Tail(pos), k)

\* normalize_transition_matrix with tot taken once over the whole table
MC_normalize_transition_matrix_global(tr, flag) ==
    IF ~flag
    THEN LET tot == SumOver([p \in DOMAIN tr |-> DictSum(tr[p])], DOMAIN tr)
         IN [p \in DOMAIN tr |-> [p2 \in DOMAIN tr[p] |-> RDiv(tr[p][p2], tot)]]
    ELSE tr

\* normalize_transition_matrix: each row divided by its total, unless flagged
MC_normalize_transition_matrix(tr, flag) ==
    IF ~flag
    THEN [p \in DOMAIN tr |->
            [p2 \in DOMAIN tr[p] |-> RDiv(tr[p][p2], DictSum(tr[p]))]]
    ELSE tr

\* normalize_init_vector: each count divided by the total; the guard reads
\* normalized_transition (sic)
MC_normalize_init_vector(iv, flag) ==
    IF ~flag
    THEN [p \in DOMAIN iv |-> RDiv(iv[p], DictSum(iv))]
    ELSE iv

\* predict_init_vector: self.pr = [init_vector[p] or 0]; words gets the first window
MC_predict_init_vector(s, iv, k) ==
    LET i == init_p(s, k)
    IN [s |-> i.s, p |-> i.p, w |-> i.w,
        pr |-> << IF i.p \in DOMAIN iv THEN iv[i.p] ELSE Zero >>,
        words |-> << i.w >>]

\* the score predict_transition appends: transition[prvs][p], 0 on KeyError
MC_lookup(tr, prvs, p) ==
    IF prvs \in DOMAIN tr /\ p \in DOMAIN tr[prvs] THEN tr[prvs][p] ELSE Zero

\* the loop of predict_proba over the remaining tokens, predict_transition at each;
\* c is [pr, words, prvs, prvs_w]
RECURSIVE MC_predict_tokens(_, _, _, _)
MC_predict_tokens(c, s, tr, k) ==
    IF s = <<>> THEN c
    ELSE LET w == s[1][1]
             p == s[1][2]
             prvs2 == IF k > 1 THEN update_prvs(c.prvs, p, DELIM) ELSE p
             prvs_w2 == IF k > 1 THEN update_prvs(c.prvs_w, w, SPACE) ELSE w
         IN MC_predict_tokens([pr |-> Append(c.pr, MC_lookup(tr, c.prvs, p)),
                               words |-> Append(c.words, prvs_w2),
                               prvs |-> prvs2,
                               prvs_w |-> prvs_w2],
                              Tail(s), tr, k)

\* predict_proba: what the call leaves in self.pr and self.words, what it returns
\* and what it raises, from the tables and the self.pr it finds
MC_predict_proba(pos, iv, tr, k, had_pr, old_pr) ==
    IF Len(pos) > k + 1
    THEN LET i == MC_predict_init_vector(pos, iv, k)
             c == MC_predict_tokens([pr |-> i.pr, words |-> i.words,
                                     prvs |-> i.p, prvs_w |-> i.w], i.s, tr, k)
             lwst == ArgMin(c.pr)
         IN [has_pr |-> TRUE, pr |-> c.pr, words |-> c.words,
             ret |-> << c.pr, << c.words[lwst] >> >>, raised |-> "none"]
    ELSE IF had_pr
         THEN [has_pr |-> TRUE, pr |-> old_pr, words |-> <<>>,
               ret |-> << old_pr, <<>> >>, raised |-> "none"]
         ELSE [has_pr |-> FALSE, pr |-> <<>>, words |-> <<>>,
               ret |-> <<>>, raised |-> "AttributeError"]


-----------------------------------------------------------------------------
(* class NGrams *)

\* update_init_vector(p): init_vector[p] += 1, or = 1 on KeyError
NG_update_init_vector(iv, p) ==
    IF p \in DOMAIN iv THEN DictSet(iv, p, RAdd(iv[p], One))
    ELSE DictSet(iv, p, One)

\* update_transition: transition['**'.join([prvs, p, nxt])] += 1, or = 1 on KeyError
NG_update_transition(tr, p, prvs, nxt) ==
    LET key == Join(<<prvs, p, nxt>>, DELIM)
    IN IF key \in DOMAIN tr THEN DictSet(tr, key, RAdd(tr[key], One))
       ELSE DictSet(tr, key, One)

\* the loop of fit over the positions ix.. of one sentence (ix counts from 1 here);
\* the first and the last position are passed over
RECURSIVE NG_fit_positions(_, _, _)
NG_fit_positions(t, s, ix) ==
    IF ix > Len(s) THEN t
    ELSE IF ix = 1 \/ ix = Len(s) THEN NG_fit_positions(t, s, ix + 1)
    ELSE NG_fit_positions(
            [tr |-> NG_update_transition(t.tr, s[ix][2], s[ix - 1][2], s[ix + 1][2]),
             iv |-> NG_update_init_vector(t.iv, s[ix][2])],
            s, ix + 1)

\* the loop of fit over the corpus
RECURSIVE NG_fit_loop(_, _, _)
NG_fit_loop(t, pos, k) ==
    IF pos = <<>> THEN t
    ELSE IF Len(pos[1]) > k + 1
         THEN NG_fit_loop(NG_fit_positions(t, pos[1], 1), Tail(pos), k)
         ELSE NG_fit_loop(t, Tail(pos), k)

\* key.split('**')[1]
z_of(key) == Split(key, DELIM)[2]

\* x_y: key.split('**')[0] + '**' + key.split('**')[2]
x_y(key) == Split(key, DELIM)[1] \o DELIM \o Split(key, DELIM)[3]

\* calc_p_z: for each center z, the sum of the entries whose key has it
calc_p_z(tr) ==
    [z \in {z_of(key) : key \in DOMAIN tr} |->
        SumOver(tr, {key \in DOMAIN tr : z_of(key) = z})]

\* calc_p_x_y: for each pair xy, the sum of the entries whose key has it
calc_p_x_y(tr) ==
    [xy \in {x_y(key) : key \in DOMAIN tr} |->
        SumOver(tr, {key \in DOMAIN tr : x_y(key) = xy})]

\* calc_p_z_given_x_y: per pair of p_x_y, the entries summed per center, then each
\* divided by the pair's total
calc_p_z_given_x_y(tr, pxy) ==
    [xy \in {x_y(key) : key \in DOMAIN tr} |->
        LET keys == IF xy \in DOMAIN pxy
                    THEN {key \in DOMAIN tr : x_y(key) = xy}
                    ELSE {}
            cts == [z \in {z_of(key) : key \in keys} |->
                      SumOver(tr, {key \in keys : z_of(key) = z})]
        IN [z \in DOMAIN cts |-> RDiv(cts[z], DictSum(cts))]]

\* normalize_transition_matrix with tot = len(self.transition)
NG_normalize_transition_matrix_len(t, flag) ==
    IF ~flag
    THEN LET pz == calc_p_z(t.transition)
             pxy == calc_p_x_y(t.transition)
             tot == <<Cardinality(DOMAIN t.transition), 1>>
         IN [transition |-> [key \in DOMAIN t.transition |->
                                RDiv(t.transition[key], tot)],
             p_x_y |-> [xy \in DOMAIN pxy |-> RDiv(pxy[xy], tot)],
             p_z |-> [z \in DOMAIN pz |-> RDiv(pz[z], tot)],
             p_z_given_x_y |-> calc_p_z_given_x_y(t.transition, pxy),
             has_p |-> TRUE]
    ELSE t

\* normalize_transition_matrix: the three derived tables, then transition, p_x_y
\* and p_z divided by the grand total; t holds the four tables and has_p
NG_normalize_transition_matrix(t, flag) ==
    IF ~flag
    THEN LET pz == calc_p_z(t.transition)
             pxy == calc_p_x_y(t.transition)
             pzgxy == calc_p_z_given_x_y(t.transition, pxy)
             tot == DictSum(t.transition)
         IN [transition |-> [key \in DOMAIN t.transition |->
                                RDiv(t.transition[key], tot)],
             p_x_y |-> [xy \in DOMAIN pxy |-> RDiv(pxy[xy], tot)],
             p_z |-> [z \in DOMAIN pz |-> RDiv(pz[z], tot)],
             p_z_given_x_y |-> pzgxy,
             has_p |-> TRUE]
    ELSE t

\* normalize_init_vector: each count divided by the total; the guard reads
\* normalized_transition (sic)
NG_normalize_init_vector(iv, flag) ==
    IF ~flag
    THEN [p \in DOMAIN iv |-> RDiv(iv[p], DictSum(iv))]
    ELSE iv

\* the score predict_transition_bayes appends at position ix (from 1 here):
\* p_z_given_x_y[xy][z] * p_x_y[xy] / p_z[z], 0 on KeyError
NG_score(s, ix, pzgxy, pxy, pz) ==
    LET z == s[ix][2]
        xy == Join(<<s[ix - 1][2], s[ix + 1][2]>>, DELIM)
    IN IF /\ xy \in DOMAIN pzgxy
          /\ z \in DOMAIN pzgxy[xy]
          /\ xy \in DOMAIN pxy
          /\ z \in DOMAIN pz
       THEN RDiv(RMul(pzgxy[xy][z], pxy[xy]), pz[z])
       ELSE Zero

\* the window predict_transition_bayes appends at position ix
NG_window(s, ix) == Join(<<s[ix - 1][1], s[ix][1], s[ix + 1][1]>>, SPACE)

\* predict_proba: what the call leaves in self.pr and self.words, what it returns
\* and what it raises.  Without the derived tables the first interior position
\* raises AttributeError; an empty self.pr makes argmin raise ValueError.
NG_predict_proba(pos, k, hp, pzgxy, pxy, pz) ==
    LET inner == IF Len(pos) > k + 1 THEN 2..(Len(pos) - 1) ELSE {}
        n == Cardinality(inner)
    IN IF inner # {} /\ ~hp
       THEN [pr |-> <<>>, words |-> <<>>, ret |-> <<>>, raised |-> "AttributeError"]
       ELSE LET scores == [i \in 1..n |-> NG_score(pos, i + 1, pzgxy, pxy, pz)]
                wins == [i \in 1..n |-> NG_window(pos, i + 1)]
            IN IF n = 0
               THEN [pr |-> <<>>, words |-> <<>>, ret |-> <<>>, raised |-> "ValueError"]
               ELSE [pr |-> scores, words |-> wins,
                     ret |-> << scores, wins[ArgMin(scores)] >>, raised |-> "none"]

-----------------------------------------------------------------------------
(* The instance after construction: __init__ of either class *)

Init ==
    /\ cls \in {"MarkovChain", "NGrams"}
    /\ order \in Orders
    /\ transition = <<>>
    /\ init_vector = <<>>
    /\ normalized_init = FALSE
    /\ normalized_transition = FALSE
    /\ has_pr = FALSE
    /\ pr = <<>>
    /\ words = <<>>
    /\ has_p = FALSE
    /\ p_z = <<>>
    /\ p_x_y = <<>>
    /\ p_z_given_x_y = <<>>
    /\ op = "init"
    /\ arg = <<>>
    /\ ret = <<>>
    /\ raised = "none"
    /\ nfit = 0
    /\ repeated = FALSE

NGTables == <<p_z, p_x_y, p_z_given_x_y, has_p>>
Flags == <<cls, order, normalized_init, normalized_transition>>

(* MarkovChain.fit(pos), pos drawn from C *)
MC_FitOn(C) ==
    /\ cls = "MarkovChain"
    /\ nfit < MaxFits
    /\ \E pos \in C :
        LET t == MC_fit_loop([iv |-> init_vector, tr |-> transition], pos, order)
        IN /\ init_vector' = MC_normalize_init_vector(t.iv, normalized_transition)
           /\ transition' = MC_normalize_transition_matrix(t.tr, normalized_transition)
           /\ arg' = pos
    /\ op' = "fit"
    /\ ret' = <<>>
    /\ raised' = "none"
    /\ nfit' = nfit + 1
    /\ repeated' = FALSE
    /\ UNCHANGED <<Flags, NGTables, has_pr, pr, words>>

(* MarkovChain.normalize_transition_matrix(); the else branch builds an
   AttributeError and drops it, so nothing is raised *)
MC_NormalizeTransitionMatrix ==
    /\ cls = "MarkovChain"
    /\ transition' = MC_normalize_transition_matrix(transition, normalized_transition)
    /\ op' = "normalize_transition_matrix"
    /\ arg' = <<>>
    /\ ret' = <<>>
    /\ raised' = "none"
    /\ repeated' = (op \in {"fit", "normalize_transition_matrix"})
    /\ UNCHANGED <<Flags, NGTables, init_vector, has_pr, pr, words, nfit>>

(* MarkovChain.normalize_init_vector() *)
MC_NormalizeInitVector ==
    /\ cls = "MarkovChain"
    /\ init_vector' = MC_normalize_init_vector(init_vector, normalized_transition)
    /\ op' = "normalize_init_vector"
    /\ arg' = <<>>
    /\ ret' = <<>>
    /\ raised' = "none"
    /\ repeated' = (op \in {"fit", "normalize_init_vector"})
    /\ UNCHANGED <<Flags, NGTables, transition, has_pr, pr, words, nfit>>

(* MarkovChain.predict_proba(pos) *)
MC_PredictProba ==
    /\ cls = "MarkovChain"
    /\ \E pos \in Sentences :
        LET r == MC_predict_proba(pos, init_vector, transition, order, has_pr, pr)
        IN /\ has_pr' = r.has_pr
           /\ pr' = r.pr
           /\ words' = r.words
           /\ ret' = r.ret
           /\ raised' = r.raised
           /\ arg' = pos
    /\ op' = "predict_proba"
    /\ repeated' = FALSE
    /\ UNCHANGED <<Flags, NGTables, transition, init_vector, nfit>>

(* NGrams.fit(pos), pos drawn from C *)
NG_FitOn(C) ==
    /\ cls = "NGrams"
    /\ nfit < MaxFits
    /\ \E pos \in C :
        LET t == NG_fit_loop([iv |-> init_vector, tr |-> transition], pos, order)
        IN /\ init_vector' = t.iv
           /\ transition' = t.tr
           /\ arg' = pos
    /\ op' = "fit"
    /\ ret' = <<>>
    /\ raised' = "none"
    /\ nfit' = nfit + 1
    /\ repeated' = FALSE
    /\ UNCHANGED <<Flags, NGTables, has_pr, pr, words>>

(* NGrams.normalize_transition_matrix(); nothing is raised in the else branch *)
NG_NormalizeTransitionMatrix ==
    /\ cls = "NGrams"
    /\ LET t == NG_normalize_transition_matrix(
                    [transition |-> transition, p_x_y |-> p_x_y, p_z |-> p_z,
                     p_z_given_x_y |-> p_z_given_x_y, has_p |-> has_p],
                    normalized_transition)
       IN /\ transition' = t.transition
          /\ p_x_y' = t.p_x_y
          /\ p_z' = t.p_z
          /\ p_z_given_x_y' = t.p_z_given_x_y
          /\ has_p' = t.has_p
    /\ op' = "normalize_transition_matrix"
    /\ arg' = <<>>
    /\ ret' = <<>>
    /\ raised' = "none"
    /\ repeated' = (op = "normalize_transition_matrix")
    /\ UNCHANGED <<Flags, init_vector, has_pr, pr, words, nfit>>

(* NGrams.normalize_init_vector() *)
NG_NormalizeInitVector ==
    /\ cls = "NGrams"
    /\ init_vector' = NG_normalize_init_vector(init_vector, normalized_transition)
    /\ op' = "normalize_init_vector"
    /\ arg' = <<>>
    /\ ret' = <<>>
    /\ raised' = "none"
    /\ repeated' = (op = "normalize_init_vector")
    /\ UNCHANGED <<Flags, NGTables, transition, has_pr, pr, words, nfit>>

(* NGrams.predict_proba(pos) *)
NG_PredictProba ==
    /\ cls = "NGrams"
    /\ \E pos \in Sentences :
        LET r == NG_predict_proba(pos, order, has_p, p_z_given_x_y, p_x_y, p_z)
        IN /\ pr' = r.pr
           /\ words' = r.words
           /\ ret' = r.ret
           /\ raised' = r.raised
           /\ arg' = pos
    /\ has_pr' = TRUE
    /\ op' = "predict_proba"
    /\ repeated' = FALSE
    /\ UNCHANGED <<Flags, NGTables, transition, init_vector, nfit>>

MC_Fit == MC_FitOn(Corpora)
NG_Fit == NG_FitOn(Corpora)
MC_FitCorpus == MC_FitOn(FitCorpora)
NG_FitCorpus == NG_FitOn(FitCorpora)

\* every method of the instance, fit on corpora of at most MaxSents sentences
Next ==
    \/ MC_Fit
    \/ MC_NormalizeTransitionMatrix
    \/ MC_NormalizeInitVector
    \/ MC_PredictProba
    \/ NG_Fit
    \/ NG_NormalizeTransitionMatrix
    \/ NG_NormalizeInitVector
    \/ NG_PredictProba

Spec == Init /\ [][Next]_vars

\* fit and the normalize methods, fit on the corpora of Spec and on corpora of at
\* most MaxFitSents sentences over FitTokens
NextFit ==
    \/ MC_FitCorpus
    \/ MC_NormalizeTransitionMatrix
    \/ MC_NormalizeInitVector
    \/ NG_FitCorpus
    \/ NG_NormalizeTransitionMatrix
    \/ NG_NormalizeInitVector

SpecFit == Init /\ [][NextFit]_vars

-----------------------------------------------------------------------------
(* utils.verb_filter *)

\* tagged tokens as nltk.pos_tag_sents gives them: two verb tags, a tag without 'V'
\* and a tag with a 'V' that is not its first character
VerbTokens == { << <<"r">>, <<"V", "B">> >>,
                << <<"s">>, <<"V", "B", "D">> >>,
                << <<"d">>, <<"N", "N">> >>,
                << <<"t">>, <<"N", "V">> >> }
VerbCorpora == SeqsUpTo(SeqsUpTo(VerbTokens, MaxVerbLen), MaxVerbSents)

\* s[i] of Python for the 0-based index i of a list of n elements: a negative index
\* counts from the end, an index outside -n..n-1 raises IndexError
PyInRange(s, i) == -Len(s) <= i /\ i < Len(s)
PyIndex(s, i) == IF i < 0 THEN s[Len(s) + i + 1] ELSE s[i + 1]

\* the inner loop from the 0-based position ix on: a token whose tag starts with 'V'
\* appends [pos[ix-1], pos[ix], pos[ix+1]], unless an index raises
verb_filter_sentence(s, ix) ==
    LET RECURSIVE From(_)
        From(i) ==
            IF i >= Len(s) THEN <<>>
            ELSE LET p == s[i + 1][2]
                     phrase == IF p[1] = "V" /\ PyInRange(s, i - 1) /\ PyInRange(s, i + 1)
                               THEN << <<PyIndex(s, i - 1), PyIndex(s, i), PyIndex(s, i + 1)>> >>
                               ELSE <<>>
                 IN phrase \o From(i + 1)
    IN From(ix)

\* verb_filter: the phrases of the sentences, in order
verb_filter(pos) ==
    LET RECURSIVE Over(_)
        Over(k) ==
            IF k > Len(pos) THEN <<>>
            ELSE verb_filter_sentence(pos[k], 0) \o Over(k + 1)
    IN Over(1)

\* verbs = verb_filter(pos), which the driver calls once, before any fit
VerbFilter ==
    /\ op = "init"
    /\ \E pos \in VerbCorpora :
          /\ arg' = pos
          /\ ret' = verb_filter(pos)
    /\ op' = "verb_filter"
    /\ raised' = "none"
    /\ repeated' = FALSE
    /\ UNCHANGED <<cls, order, transition, init_vector, normalized_init,
                   normalized_transition, has_pr, pr, words, has_p, p_z, p_x_y,
                   p_z_given_x_y, nfit>>

NextVerb == VerbFilter

SpecVerb == Init /\ [][NextVerb]_vars

-----------------------------------------------------------------------------
(* Vocabulary of the properties *)

NormalizeOps == {"normalize_transition_matrix", "normalize_init_vector"}

\* a sentence fit and predict_proba do not skip
Eligible(s) == Len(s) > order + 1
HasEligible(pos) == \E i \in 1..Len(pos) : Eligible(pos[i])

\* joining l by delim and splitting the result gives l back
SplitsBack(l, delim) == Split(Join(l, delim), delim) = l

\* d[k], 0 when k is no key of d
Lookup(d, k) == IF k \in DOMAIN d THEN d[k] ELSE Zero

\* the lowest index at which l is least
FirstMin(l) ==
    LET least == {i \in 1..Len(l) : \A j \in 1..Len(l) : ~RLess(l[j], l[i])}
    IN CHOOSE i \in least : \A j \in least : i <= j

\* the key of the `order` tags of s from position i on
KeyAt(s, i) == Join(SubSeq(TagsOf(s), i, i + order - 1), DELIM)

\* the `order` words of s from position i on, joined by spaces
WindowAt(s, i) == Join(SubSeq(WordsOf(s), i, i + order - 1), SPACE)

\* the scores the chain assigns to s: the initial key's probability, then for each
\* later token the probability of its tag in the row of the `order` tags before it
ChainScores(s) ==
    [i \in 1..(Len(s) - order + 1) |->
        IF i = 1 THEN Lookup(init_vector, KeyAt(s, 1))
        ELSE IF KeyAt(s, i - 1) \in DOMAIN transition
             THEN Lookup(transition[KeyAt(s, i - 1)], s[i + order - 1][2])
             ELSE Zero]

\* every state key of s that predict_proba slides splits back into its tags
KeysSplitBack(s) ==
    \/ order = 1
    \/ \A i \in 1..(Len(s) - order - 1) :
          SplitsBack(SubSeq(TagsOf(s), i, i + order - 1), DELIM)

\* every window of s that predict_proba slides splits back into its words
WindowsSplitBack(s) ==
    \/ order = 1
    \/ \A i \in 1..(Len(s) - order) :
          SplitsBack(SubSeq(WordsOf(s), i, i + order - 1), SPACE)

\* the (left, center, right) tag triples at the interior positions of the eligible
\* sentences of a corpus, as (sentence, position) places
TriplePlaces(pos) ==
    {pl \in (1..Len(pos)) \X (1..MaxLen + 1) :
        /\ Eligible(pos[pl[1]])
        /\ 1 < pl[2]
        /\ pl[2] < Len(pos[pl[1]])}
TripleAt(pos, pl) ==
    <<pos[pl[1]][pl[2] - 1][2], pos[pl[1]][pl[2]][2], pos[pl[1]][pl[2] + 1][2]>>
Triples(pos) == {TripleAt(pos, pl) : pl \in TriplePlaces(pos)}
TripleCount(pos, t) == Cardinality({pl \in TriplePlaces(pos) : TripleAt(pos, pl) = t})

-----------------------------------------------------------------------------
(* C1 *)

C1_Case ==
    /\ cls = "MarkovChain"
    /\ nfit >= 1
    /\ op = "predict_proba"
    /\ Eligible(arg)

\* C1: on a fitted MarkovChain, predict_proba of any sequence of
\* n > order+1 tokens raises nothing and returns n-order+1 scores with as many
\* windows; the first score is init_vector's value for the first `order` tags and
\* each later one is transition[previous `order` tags][current tag], 0 when the
\* initial key, the row or the tag in the row is absent.
C1_PredictScores ==
    C1_Case =>
        /\ raised = "none"
        /\ Len(ret[1]) = Len(arg) - order + 1
        /\ Len(words) = Len(arg) - order + 1
        /\ ret[1] = ChainScores(arg)

\* what does hold of C1: no exception, the counts and the first score always, and
\* the later scores whenever every state key slid on the way splits on '**' back
\* into the tags it joins (always so for order 1, and for tags without '*')
ScoresWhenKeysSplitBack ==
    C1_Case =>
        /\ raised = "none"
        /\ Len(ret[1]) = Len(arg) - order + 1
        /\ Len(words) = Len(arg) - order + 1
        /\ ret[1][1] = Lookup(init_vector, KeyAt(arg, 1))
        /\ KeysSplitBack(arg) => ret[1] = ChainScores(arg)

\* an order-2 chain scored a sequence whose slid keys split back, with a seen row
\* (a probability strictly between 0 and 1) and an unseen one (0)
ScoresWhenKeysSplitBack_Reached ==
    /\ C1_Case
    /\ order = 2
    /\ KeysSplitBack(arg)
    /\ \E i \in 2..Len(ret[1]) : ret[1][i] \notin {Zero, One}
    /\ \E i \in 2..Len(ret[1]) : ret[1][i] = Zero

-----------------------------------------------------------------------------
(* C2 *)

\* the pair, the center under the pair or the center's marginal of position i of s
\* is missing from the derived tables
NG_Missing(s, i) ==
    LET z == s[i][2]
        xy == Join(<<s[i - 1][2], s[i + 1][2]>>, DELIM)
    IN \/ xy \notin DOMAIN p_z_given_x_y
       \/ z \notin DOMAIN p_z_given_x_y[xy]
       \/ xy \notin DOMAIN p_x_y
       \/ z \notin DOMAIN p_z

\* C2: in every state of an NGrams reached by calls to fit, with or without a
\* normalize_transition_matrix call after them, predict_proba of a sequence with an
\* interior position raises nothing, and scores 0 each interior position with a
\* missing table entry.
C2_NeverRaises ==
    (/\ cls = "NGrams"
     /\ nfit >= 1
     /\ op = "predict_proba"
     /\ Len(arg) >= 3)
    => /\ raised = "none"
       /\ \A i \in 2..(Len(arg) - 1) : NG_Missing(arg, i) => ret[1][i - 1] = Zero

-----------------------------------------------------------------------------
(* C3 *)

\* C3: MarkovChain.predict_proba of a sequence of length <= order+1 returns an
\* empty score vector and an empty window list, whatever came before.
C3_ShortIsEmpty ==
    (/\ cls = "MarkovChain"
     /\ op = "predict_proba"
     /\ ~Eligible(arg))
    => /\ raised = "none"
       /\ ret = << <<>>, <<>> >>

-----------------------------------------------------------------------------
(* C4 *)

\* C4: NGrams.predict_proba of a sequence of length <= order+1 raises nothing and
\* returns an empty score vector.
C4_ShortIsNoOp ==
    (/\ cls = "NGrams"
     /\ op = "predict_proba"
     /\ ~Eligible(arg))
    => /\ raised = "none"
       /\ ret[1] = <<>>

-----------------------------------------------------------------------------
(* C5 *)

C5_Case ==
    /\ cls = "MarkovChain"
    /\ op = "fit"
    /\ HasEligible(arg)

InUnit(v) == RLess(Zero, v) /\ ~RLess(One, v)

\* C5: after MarkovChain.fit on a corpus with a sentence longer than order+1, the
\* values of init_vector sum to 1, the values of every row of transition sum to 1,
\* and every stored value is in (0, 1].
C5_Normalized ==
    C5_Case =>
        /\ DictSum(init_vector) = One
        /\ \A p \in DOMAIN init_vector : InUnit(init_vector[p])
        /\ \A p \in DOMAIN transition :
              /\ DictSum(transition[p]) = One
              /\ \A p2 \in DOMAIN transition[p] : InUnit(transition[p][p2])

\* a fit left two initial keys and a row of two tags of unequal probability
C5_Witness ==
    /\ C5_Case
    /\ Cardinality(DOMAIN init_vector) >= 2
    /\ \E p \in DOMAIN transition :
          \E a, b \in DOMAIN transition[p] : RLess(transition[p][a], transition[p][b])

-----------------------------------------------------------------------------
(* C6 *)

\* C6: a normalize method called on a table that is already normalized is refused
\* with an error, and the first normalization records the normalized state.
C6_RefusedAndRecorded ==
    (nfit >= 1 /\ op \in NormalizeOps)
    => IF repeated
       THEN raised = "AttributeError"
       ELSE normalized_transition \/ (op = "normalize_init_vector" /\ normalized_init)

-----------------------------------------------------------------------------
(* C7 *)

\* C7: normalize_transition_matrix right after fit on a MarkovChain, and a second
\* normalize_transition_matrix right after the first on a fitted NGrams, leave
\* transition, p_z, p_x_y and p_z_given_x_y as they were.
C7_Renormalize ==
    [][(/\ op' = "normalize_transition_matrix"
        /\ \/ cls = "MarkovChain" /\ op = "fit"
           \/ cls = "NGrams" /\ op = "normalize_transition_matrix" /\ nfit >= 1)
       => /\ transition' = transition
          /\ p_z' = p_z
          /\ p_x_y' = p_x_y
          /\ p_z_given_x_y' = p_z_given_x_y]_vars

\* a fitted NGrams was normalized a second time, with a pair under which two
\* centers have unequal probability
C7_Witness ==
    /\ cls = "NGrams"
    /\ nfit >= 1
    /\ op = "normalize_transition_matrix"
    /\ repeated
    /\ \E xy \in DOMAIN p_z_given_x_y :
          \E a, b \in DOMAIN p_z_given_x_y[xy] :
              RLess(p_z_given_x_y[xy][a], p_z_given_x_y[xy][b])

-----------------------------------------------------------------------------
(* C8 *)

\* the first normalize_transition_matrix of an NGrams, right after its one fit
C8_Step ==
    /\ cls = "NGrams"
    /\ op = "fit"
    /\ nfit = 1
    /\ ~has_p
    /\ HasEligible(arg)
    /\ op' = "normalize_transition_matrix"

\* for triple t of the fitted corpus: the conditional times the pair's marginal is
\* the joint, the joint is count / grand total, and the pair's conditionals sum to 1
C8_Consistent(t) ==
    LET xy == Join(<<t[1], t[3]>>, DELIM)
        key == Join(t, DELIM)
    IN /\ xy \in DOMAIN p_z_given_x_y'
       /\ t[2] \in DOMAIN p_z_given_x_y'[xy]
       /\ xy \in DOMAIN p_x_y'
       /\ key \in DOMAIN transition'
       /\ RMul(p_z_given_x_y'[xy][t[2]], p_x_y'[xy]) = transition'[key]
       /\ transition'[key] = Rat(TripleCount(arg, t), Cardinality(TriplePlaces(arg)))
       /\ DictSum(p_z_given_x_y'[xy]) = One

\* C8: after fit and normalize_transition_matrix, for every observed triple
\* (x,z,y), p_z_given_x_y[x**y][z] * p_x_y[x**y] = transition[x**z**y] = count / grand
\* total, and the values of p_z_given_x_y[x**y] sum to 1.
C8_Bayes ==
    [][C8_Step => \A t \in Triples(arg) : C8_Consistent(t)]_vars

\* what does hold of C8: the same for a corpus in which the key of every observed
\* triple splits on '**' back into the triple (always so for tags without '*')
BayesWhenKeysSplitBack ==
    [][(C8_Step /\ \A t \in Triples(arg) : SplitsBack(t, DELIM))
       => \A t \in Triples(arg) : C8_Consistent(t)]_vars

\* an NGrams was normalized once after its fit; every key splits into three tags
\* without '*', and under some pair two centers have unequal probability
BayesWhenKeysSplitBack_Reached ==
    /\ cls = "NGrams"
    /\ nfit = 1
    /\ op = "normalize_transition_matrix"
    /\ ~repeated
    /\ \A key \in DOMAIN transition :
          /\ Len(Split(key, DELIM)) = 3
          /\ \A i \in 1..Len(key) : key[i] = "*" =>
                \/ i < Len(key) /\ key[i + 1] = "*"
                \/ i > 1 /\ key[i - 1] = "*"
          /\ SplitsBack(Split(key, DELIM), DELIM)
    /\ \E xy \in DOMAIN p_z_given_x_y :
          \E a, b \in DOMAIN p_z_given_x_y[xy] :
              RLess(p_z_given_x_y[xy][a], p_z_given_x_y[xy][b])

-----------------------------------------------------------------------------
(* C9 *)

\* what predict_proba(pos) gives on an instance with these tables that has not
\* predicted yet
FreshOutcome(pos) ==
    IF cls = "MarkovChain"
    THEN LET r == MC_predict_proba(pos, init_vector, transition, order, FALSE, <<>>)
         IN <<r.ret, r.raised>>
    ELSE LET r == NG_predict_proba(pos, order, has_p, p_z_given_x_y, p_x_y, p_z)
         IN <<r.ret, r.raised>>

\* the frame half of C9: predict_proba leaves every table as it was
PredictKeepsTables ==
    [][op' = "predict_proba"
       => UNCHANGED <<init_vector, transition, p_z, p_x_y, p_z_given_x_y>>]_vars

\* C9: predict_proba of either model leaves init_vector, transition, p_z, p_x_y and
\* p_z_given_x_y as they were, so that predict calls made between fit and a later
\* predict do not change what the later predict returns.
C9_PredictIsPure ==
    [][(nfit >= 1 /\ op' = "predict_proba")
       => /\ UNCHANGED <<init_vector, transition, p_z, p_x_y, p_z_given_x_y>>
          /\ <<ret', raised'>> = FreshOutcome(arg')]_vars

-----------------------------------------------------------------------------
(* C10 *)

C10_Case ==
    /\ op = "predict_proba"
    /\ Eligible(arg)
    /\ raised = "none"

\* the flagged phrase is the window of arg at the first least score
C10_Flagged ==
    IF cls = "MarkovChain"
    THEN ret[2] = << WindowAt(arg, FirstMin(ret[1])) >>
    ELSE ret[2] = Join(SubSeq(WordsOf(arg), FirstMin(ret[1]), FirstMin(ret[1]) + 2), SPACE)

\* C10: for every eligible sequence the flagged phrase is the window at the
\* lowest index of the least score: for MarkovChain a one-element list holding the
\* `order` words from that index on, joined by spaces; for NGrams the joined left,
\* center and right words of that interior position.
C10_FlaggedPhrase == C10_Case => C10_Flagged

\* what does hold of C10: the phrase is the recorded window at the first least
\* score, and that is the window of arg whenever every window slid on the way splits
\* on ' ' back into the words it joins (always so for NGrams, for order 1, and for
\* words without a space)
FlaggedWhenWindowsSplitBack ==
    C10_Case =>
        /\ Len(words) = Len(ret[1])
        /\ cls = "MarkovChain" => ret[2] = << words[FirstMin(ret[1])] >>
        /\ (cls = "NGrams" \/ WindowsSplitBack(arg)) => C10_Flagged

\* an order-2 chain flagged the second window of a sequence whose windows split
\* back, the least score being tied between the second and the third
FlaggedWhenWindowsSplitBack_Reached ==
    /\ C10_Case
    /\ cls = "MarkovChain"
    /\ order = 2
    /\ WindowsSplitBack(arg)
    /\ Len(ret[1]) = 3
    /\ FirstMin(ret[1]) = 2
    /\ ret[1][3] = ret[1][2]

-----------------------------------------------------------------------------
(* C11 *)

\* the triples of three consecutive tokens of s around the centers from the 1-based
\* position i on whose tag starts with 'V', a first and a last token being no center
AdjacentTriples(s, i) ==
    LET RECURSIVE From(_)
        From(j) ==
            IF j >= Len(s) THEN <<>>
            ELSE (IF j > 1 /\ s[j][2][1] = "V"
                  THEN << <<s[j - 1], s[j], s[j + 1]>> >>
                  ELSE <<>>) \o From(j + 1)
    IN From(i)

CorpusTriples(pos) ==
    LET RECURSIVE Over(_)
        Over(k) ==
            IF k > Len(pos) THEN <<>>
            ELSE AdjacentTriples(pos[k], 1) \o Over(k + 1)
    IN Over(1)

\* phrase is three tokens that stand next to each other in some sentence of pos
IsWindow(pos, phrase) ==
    \E k \in 1..Len(pos) : \E j \in 2..(Len(pos[k]) - 1) :
        phrase = <<pos[k][j - 1], pos[k][j], pos[k][j + 1]>>

\* C11: verb_filter returns, in sentence and position order, exactly the triples
\* (s[i-1], s[i], s[i+1]) of three consecutive tokens of a sentence whose center tag
\* starts with 'V'; a verb that is the first or the last token of its sentence
\* contributes no triple, so every returned phrase is a window of adjacent tokens.
C11_VerbWindows ==
    op = "verb_filter" =>
        /\ ret = CorpusTriples(arg)
        /\ \A n \in 1..Len(ret) : IsWindow(arg, ret[n])

\* what does hold of C11: the same for a corpus in which no sentence of two or more
\* tokens starts with a verb
WindowsWhenNoLeadingVerb ==
    (/\ op = "verb_filter"
     /\ \A k \in 1..Len(arg) : Len(arg[k]) >= 2 => arg[k][1][2][1] # "V")
    => /\ ret = CorpusTriples(arg)
       /\ \A n \in 1..Len(ret) : IsWindow(arg, ret[n])

\* verb_filter returned phrases of two sentences, one of which ends with a verb
WindowsWhenNoLeadingVerb_Reached ==
    /\ op = "verb_filter"
    /\ Len(arg) = 2
    /\ \A k \in 1..2 : Len(arg[k]) = 3 /\ arg[k][1][2][1] # "V"
    /\ arg[1][3][2][1] = "V"
    /\ Len(ret) = 2

====
